---- MODULE Spec2Model ----
(***************************************************************************)
(* Donation-to-announcement pipeline of the Tunisian TTS reader.           *)
(*                                                                         *)
(* Server (index.js, latest revision with the Groq normalizer, the         *)
(* translation cache and the socket threshold): POST /webhook,             *)
(* arabiziToArabic, io.on('connection'), set_threshold.                    *)
(* Client (public/client.js, queueing revision): enableBtn.onclick,        *)
(* processQueue, socket.on('donation').                                    *)
(*                                                                         *)
(* JavaScript runs each handler to its next await without interleaving,    *)
(* so one action is one handler run from its entry (or from the            *)
(* resumption of an await on the remote call) to its next suspension.      *)
(* An await on an already settled promise resumes in the microtask queue   *)
(* of the same task, before any other handler can start, and is therefore  *)
(* part of the same action.                                                *)
(*                                                                         *)
(* Texts are sequences of code units; a code unit is a one-token string.   *)
(* Optional JavaScript values are None (undefined) or Some(v).             *)
(***************************************************************************)
EXTENDS Integers, Sequences, FiniteSets, TLC

VARIABLES
    ttsMinimumAmount,   \* let ttsMinimumAmount
    translationCache,   \* const translationCache = new Map()
    inflight,           \* webhook handlers suspended at `await groq...create`, in arrival order
    connected,          \* the sockets of the socket.io server
    streams,            \* GET /audio requests whose response is open, in arrival order
    step,               \* the handler run that produced this state, with its input
    out,                \* what that handler run did, in program order
    inbox,              \* per player page: events sent to its socket, not yet handled
    unlocked,           \* per player page: let unlocked
    donationQueue,      \* per player page: const donationQueue
    isPlaying,          \* per player page: let isPlaying
    timers,             \* per player page: pending setTimeout callbacks of processQueue
    audios,             \* per player page: Audio elements created by processQueue
    resuming            \* per player page: pending audioContext.resume() promises

serverVars == <<ttsMinimumAmount, translationCache, inflight, connected, streams>>
pageVars == <<unlocked, donationQueue, isPlaying, timers, audios, resuming>>
vars == <<serverVars, step, out, inbox, pageVars>>

----------------------------------------------------------------------------
(* Bounds of the model *)

MaxInFlight == 1        \* suspended webhook handlers, specification Spec
MaxThreshold == 2       \* largest threshold a socket sets
MaxInbox == 1           \* events on the wire to one player page
MaxQueue == 2           \* events on the wire to one player page plus entries it holds
MaxOverlap == 2         \* webhook handlers suspended at overlapping times
MaxStreams == 2         \* open responses of GET /audio
MaxPending == 1         \* suspended webhook handlers, specification PlayerSpec

(* Program constants *)

MAX_TTS_LEN == 190
OK == 200
BAD_REQUEST == 400
SERVER_ERROR == 500

----------------------------------------------------------------------------
(* JavaScript values *)

None == <<>>
Some(x) == <<x>>
IsDefined(o) == Len(o) > 0
Get(o) == o[1]

\* the code units the model distinguishes
WhiteSpace == {" ", "NL"}
Pictographs == {"EMOJI"}
Digits == {"0", "1", "2", "3", "4", "5", "6", "7", "8", "9"}

----------------------------------------------------------------------------
(* String functions of the JavaScript runtime, on sequences of code units *)

RECURSIVE TrimStart(_)
TrimStart(s) ==
    IF s = <<>> THEN <<>>
    ELSE IF Head(s) \in WhiteSpace THEN TrimStart(Tail(s)) ELSE s

RECURSIVE TrimEnd(_)
TrimEnd(s) ==
    IF s = <<>> THEN <<>>
    ELSE IF s[Len(s)] \in WhiteSpace THEN TrimEnd(SubSeq(s, 1, Len(s) - 1)) ELSE s

\* String.prototype.trim
Trim(s) == TrimEnd(TrimStart(s))

UpperToLower ==
    [c \in {"A", "D", "I", "M", "N", "O", "S"} |->
        CASE c = "A" -> "a" [] c = "D" -> "d" [] c = "I" -> "i" [] c = "M" -> "m"
          [] c = "N" -> "n" [] c = "O" -> "o" [] c = "S" -> "s"]

\* String.prototype.toLowerCase
ToLowerCase(s) ==
    [i \in 1..Len(s) |-> IF s[i] \in DOMAIN UpperToLower THEN UpperToLower[s[i]] ELSE s[i]]

\* String.prototype.startsWith
StartsWith(s, prefix) ==
    /\ Len(s) >= Len(prefix)
    /\ SubSeq(s, 1, Len(prefix)) = prefix

\* String.prototype.includes for a two-unit needle
IncludesPair(s, a, b) == \E i \in 1..(Len(s) - 1) : s[i] = a /\ s[i + 1] = b

\* text.replace(emojiRegex, '')
StripEmoji(s) == SelectSeq(s, LAMBDA c : c \notin Pictographs)

\* .replace(/(\d)'/g, '$1') : an apostrophe right after a digit is dropped
\* (the units lo..hi of s; halving keeps the evaluation shallow on long texts)
RECURSIVE StripQuoteFrom(_, _, _)
StripQuoteFrom(s, lo, hi) ==
    IF lo > hi THEN <<>>
    ELSE IF lo = hi
         THEN (IF s[lo] = "'" /\ lo > 1 /\ s[lo - 1] \in Digits THEN <<>> ELSE <<s[lo]>>)
         ELSE LET mid == (lo + hi) \div 2
              IN  StripQuoteFrom(s, lo, mid) \o StripQuoteFrom(s, mid + 1, hi)

StripQuoteAfterDigit(s) == StripQuoteFrom(s, 1, Len(s))

\* the pre-processing step of arabiziToArabic
CleanText(text) == Trim(StripQuoteAfterDigit(StripEmoji(text)))

----------------------------------------------------------------------------
(* Post-processing of the model's answer in arabiziToArabic *)

BoldOpensAt(s, i) == i + 1 <= Len(s) /\ s[i] = "*" /\ s[i + 1] = "*"

\* /\*\*(.*?)\*\*/ matches from i to j+1: `.` does not match a line break
BoldSpan(s, i, j) ==
    /\ BoldOpensAt(s, i)
    /\ j >= i + 2
    /\ BoldOpensAt(s, j)
    /\ \A k \in (i + 2)..(j - 1) : s[k] # "NL"

HasBold(s) == \E i \in 1..Len(s) : \E j \in 1..Len(s) : BoldSpan(s, i, j)

\* boldParts[0]: leftmost start, then the nearest closing pair (lazy quantifier)
FirstBoldMatch(s) ==
    LET i == CHOOSE a \in 1..Len(s) :
                 /\ \E j \in 1..Len(s) : BoldSpan(s, a, j)
                 /\ \A b \in 1..(a - 1) : ~ \E j \in 1..Len(s) : BoldSpan(s, b, j)
        j == CHOOSE c \in 1..Len(s) :
                 /\ BoldSpan(s, i, c)
                 /\ \A d \in 1..(c - 1) : ~ BoldSpan(s, i, d)
    IN  SubSeq(s, i, j + 1)

\* .replace(/\*\*/g, '')
RECURSIVE RemoveStarPairs(_)
RemoveStarPairs(s) ==
    IF Len(s) < 2 THEN s
    ELSE IF s[1] = "*" /\ s[2] = "*" THEN RemoveStarPairs(SubSeq(s, 3, Len(s)))
         ELSE <<s[1]>> \o RemoveStarPairs(Tail(s))

\* arabic.split('\n').find(line => line.trim().length > 0), None when there is none
RECURSIVE FirstNonBlankLine(_)
FirstNonBlankLine(s) ==
    LET breaks == {i \in 1..Len(s) : s[i] = "NL"}
        cut == IF breaks = {} THEN Len(s) + 1
               ELSE CHOOSE i \in breaks : \A k \in breaks : i <= k
        line == SubSeq(s, 1, cut - 1)
    IN  IF Trim(line) # <<>> THEN Some(line)
        ELSE IF breaks = {} THEN None
        ELSE FirstNonBlankLine(SubSeq(s, cut + 1, Len(s)))

ExtractBold(arabic) ==
    IF arabic # <<>> /\ IncludesPair(arabic, "*", "*") /\ HasBold(arabic)
    THEN Trim(RemoveStarPairs(FirstBoldMatch(arabic)))
    ELSE arabic

FirstLine(arabic) ==
    IF arabic # <<>> /\ \E i \in 1..Len(arabic) : arabic[i] = "NL"
    THEN LET line == FirstNonBlankLine(arabic)
         IN  IF IsDefined(line) /\ Get(line) # <<>> THEN Get(line) ELSE arabic
    ELSE arabic

Truncate(arabic) ==
    IF arabic # <<>> /\ Len(arabic) > MAX_TTS_LEN
    THEN SubSeq(arabic, 1, MAX_TTS_LEN)
    ELSE arabic

\* chatCompletion.choices[0]?.message?.content?.trim() || ''
RawArabic(content) == IF IsDefined(content) THEN Trim(Get(content)) ELSE <<>>

PostClean(content) == Truncate(FirstLine(ExtractBold(RawArabic(content))))

\* const result = arabic || cleanedText
ConversionResult(content, cleanedText) ==
    IF PostClean(content) # <<>> THEN PostClean(content) ELSE cleanedText

\* the catch branch: return cleanedText
FailureResult(cleanedText) == cleanedText

\* translationCache.set(cleanedText, result)
CacheSet(cache, k, v) ==
    [x \in DOMAIN cache \cup {k} |-> IF x = k THEN v ELSE cache[x]]

----------------------------------------------------------------------------
(* encodeURIComponent and the audio reference *)

Unreserved == {"a", "b", "x", "y", "z", "'", "*"} \cup Digits

PercentCode(c) ==
    CASE c = " "     -> <<"%", "2", "0">>
      [] c = "NL"    -> <<"%", "0", "A">>
      [] c = "EMOJI" -> <<"%", "E", "2", "%", "9", "8", "%", "8", "0">>
      [] OTHER       -> <<"%", c>>

EncodeUnit(c) == IF c \in Unreserved THEN <<c>> ELSE PercentCode(c)

RECURSIVE EncodeFrom(_, _, _)
EncodeFrom(s, lo, hi) ==
    IF lo > hi THEN <<>>
    ELSE IF lo = hi THEN EncodeUnit(s[lo])
    ELSE LET mid == (lo + hi) \div 2
         IN  EncodeFrom(s, lo, mid) \o EncodeFrom(s, mid + 1, hi)

EncodeURIComponent(s) == EncodeFrom(s, 1, Len(s))

AUDIO_PATH == <<"/audio?text=">>

\* const localTtsUrl = `/audio?text=${encodeURIComponent(arabicText)}`
LocalTtsUrl(arabicText) == AUDIO_PATH \o EncodeURIComponent(arabicText)

----------------------------------------------------------------------------
(* What a handler run does, recorded in program order *)

Response(status) == [kind |-> "response", status |-> status]
NormalizerCall(text) == [kind |-> "normalize", text |-> text]
RemoteCall(cleanedText) == [kind |-> "remote_call", text |-> cleanedText]
Log(line) == [kind |-> "log", line |-> line]
Emit(event, data, to) == [kind |-> "emit", event |-> event, data |-> data, to |-> to]

----------------------------------------------------------------------------
(* The sockets, and the delivery of what the server emits *)

Players == {"player1"}          \* browser pages running public/client.js
Pages == Players \cup {"player2"}   \* the pages that exist; a second one for the runs with two pages
Controllers == {"panel"}        \* other socket.io peers (threshold buttons)

IsEmitTo(e, c) == e.kind = "emit" /\ c \in e.to

\* the events of one handler run that go to the socket of page c, in order
Wire(c, o) == SelectSeq(o, LAMBDA e : IsEmitTo(e, c))

\* the entries the page holds: queued, waiting for the pre-roll or handed to an element
Held(c) == Len(donationQueue[c]) + Len(timers[c]) + Len(audios[c])

\* a handler of the server ran: its emits are on the wire, the pages did not move.
\* The run is left out when a page would have more events and entries than the bounds.
Deliver ==
    /\ inbox' = [c \in Pages |-> inbox[c] \o Wire(c, out')]
    /\ \A c \in Pages : /\ Len(inbox'[c]) <= MaxInbox
                          /\ Len(inbox'[c]) + Held(c) <= MaxQueue
    /\ UNCHANGED <<pageVars, streams>>

----------------------------------------------------------------------------
(* POST /webhook *)

GATED_PREFIX == <<"d", "i", "a", "m", "o", "n", "d">>

\* a validation that forgets the asset
MissingRequiredNoAsset(p) ==
    \/ ~ IsDefined(p.paymentID)
    \/ ~ IsDefined(p.amount)

\* typeof paymentID === 'undefined' || typeof amount === 'undefined' || typeof asset === 'undefined'
MissingRequired(p) ==
    \/ ~ IsDefined(p.paymentID)
    \/ ~ IsDefined(p.amount)
    \/ ~ IsDefined(p.asset)

\* asset?.name
AssetName(p) == IF IsDefined(p.asset) THEN Get(p.asset).name ELSE None

\* a gate that also skips an amount equal to the threshold
BelowOrAtThreshold(p, threshold) ==
    /\ IsDefined(p.asset) /\ IsDefined(Get(p.asset).name)
    /\ StartsWith(ToLowerCase(Get(Get(p.asset).name)), GATED_PREFIX)
    /\ Get(p.amount) <= threshold

\* asset?.name?.toLowerCase().startsWith('diamond') && amount < ttsMinimumAmount
BelowThreshold(p, threshold) ==
    /\ IsDefined(AssetName(p))
    /\ StartsWith(ToLowerCase(Get(AssetName(p))), GATED_PREFIX)
    /\ Get(p.amount) < threshold

\* a JavaScript string is truthy when it is defined and not ''
Truthy(message) == IsDefined(message) /\ Get(message) # <<>>

\* donor?.username || 'Anonymous'
DonorName(p) ==
    IF /\ IsDefined(p.donor)
       /\ IsDefined(Get(p.donor).username)
       /\ Get(Get(p.donor).username) # ""
    THEN Get(Get(p.donor).username)
    ELSE "Anonymous"

\* a handler without the whitespace branch in front of the no-message branch, so that a
\* whitespace-only message is announced like an absent one
WebhookPathBlankAsAbsent(p, threshold) ==
    IF MissingRequired(p) THEN "rejected"
    ELSE IF BelowThreshold(p, threshold) THEN "suppressed"
    ELSE IF ~ Truthy(p.message) \/ Trim(Get(p.message)) = <<>> THEN "no_message"
    ELSE "normalizing"

\* a handler that looks at the message before it looks at the threshold
WebhookPathMessageFirst(p, threshold) ==
    IF MissingRequired(p) THEN "rejected"
    ELSE IF Truthy(p.message) /\ Trim(Get(p.message)) = <<>> THEN "blank"
    ELSE IF ~ Truthy(p.message) THEN "no_message"
    ELSE IF BelowThreshold(p, threshold) THEN "suppressed"
    ELSE "normalizing"

\* a handler without the whitespace branch: every truthy message goes to the normalizer
WebhookPathNoBlankCheck(p, threshold) ==
    IF MissingRequired(p) THEN "rejected"
    ELSE IF BelowThreshold(p, threshold) THEN "suppressed"
    ELSE IF ~ Truthy(p.message) THEN "no_message"
    ELSE "normalizing"

\* a handler that announces a message emptied by cleaning like an absent one
WebhookPathEmptiedAsAbsent(p, threshold) ==
    IF MissingRequired(p) THEN "rejected"
    ELSE IF BelowThreshold(p, threshold) THEN "suppressed"
    ELSE IF Truthy(p.message) /\ Trim(Get(p.message)) = <<>> THEN "blank"
    ELSE IF ~ Truthy(p.message) \/ CleanText(Get(p.message)) = <<>> THEN "no_message"
    ELSE "normalizing"

\* the branch the handler takes after destructuring the body
WebhookPath(p, threshold) ==
    IF MissingRequired(p) THEN "rejected"
    ELSE IF BelowThreshold(p, threshold) THEN "suppressed"
    ELSE IF Truthy(p.message) /\ Trim(Get(p.message)) = <<>> THEN "blank"
    ELSE IF ~ Truthy(p.message) THEN "no_message"
    ELSE "normalizing"

\* the payload of io.emit('donation_nomessage', ...)
NoMessageData(p) ==
    [donor |-> DonorName(p), amount |-> Get(p.amount), asset |-> AssetName(p)]

\* a payload whose audio reference is built from the message as received
DonationDataUrlFromOriginal(p, arabicText) ==
    [paymentID     |-> Get(p.paymentID),
     donor         |-> DonorName(p),
     displayAmount |-> <<Get(p.amount),
                         IF Truthy(AssetName(p)) THEN Get(AssetName(p)) ELSE <<>> >>,
     amountValue   |-> Get(p.amount),
     assetType     |-> AssetName(p),
     original      |-> Get(p.message),
     arabicText    |-> arabicText,
     ttsUrl        |-> Some(LocalTtsUrl(Get(p.message)))]

\* the payload of io.emit('donation', ...)
DonationData(p, arabicText) ==
    [paymentID     |-> Get(p.paymentID),
     donor         |-> DonorName(p),
     displayAmount |-> <<Get(p.amount),
                         IF Truthy(AssetName(p)) THEN Get(AssetName(p)) ELSE <<>> >>,
     amountValue   |-> Get(p.amount),
     assetType     |-> AssetName(p),
     original      |-> Get(p.message),
     arabicText    |-> arabicText,
     ttsUrl        |-> Some(LocalTtsUrl(arabicText))]

\* a broadcast followed by the response, as before the response moved to the top
BroadcastThenRespond(p, arabicText) ==
    <<Emit("donation", DonationData(p, arabicText), connected), Response(OK)>>

\* a handler that emits the donation twice
BroadcastTwice(p, arabicText) ==
    <<Emit("donation", DonationData(p, arabicText), connected),
      Emit("donation", DonationData(p, arabicText), connected)>>

\* lines 465-477: what runs once arabiziToArabic has returned arabicText
Broadcast(p, arabicText) == <<Emit("donation", DonationData(p, arabicText), connected)>>

\* a response sent after the processing
AcknowledgedLast(processing) == processing \o <<Response(OK)>>

\* res.status(200).send(...) comes before all processing of the request
Acknowledged(processing) == <<Response(OK)>> \o processing

\* a normalizer without the cache lookup
NormalizerEntryNoLookup(text, cache) ==
    IF CleanText(text) = <<>> THEN "empty" ELSE "miss"

\* arabiziToArabic up to its first suspension: "empty", "hit" or "miss"
NormalizerEntry(text, cache) ==
    IF CleanText(text) = <<>> THEN "empty"
    ELSE IF CleanText(text) \in DOMAIN cache THEN "hit"
    ELSE "miss"

\* the value arabiziToArabic returns without suspending
ImmediateResult(text, cache) ==
    IF CleanText(text) = <<>> THEN <<>> ELSE cache[CleanText(text)]

Webhook(p) ==
    LET path == WebhookPath(p, ttsMinimumAmount) IN
    /\ step' = [op |-> "webhook", payload |-> p]
    /\ UNCHANGED <<ttsMinimumAmount, translationCache, connected>>
    /\ CASE path = "rejected" ->
              /\ out' = <<Log("Missing required fields"), Response(BAD_REQUEST)>>
              /\ UNCHANGED inflight
         [] path = "suppressed" ->
              /\ out' = Acknowledged(<<Log("below threshold")>>)
              /\ UNCHANGED inflight
         [] path = "blank" ->
              /\ out' = Acknowledged(<<Log("Received empty message")>>)
              /\ UNCHANGED inflight
         [] path = "no_message" ->
              /\ out' = Acknowledged(<<Log("No message provided"),
                                       Emit("donation_nomessage", NoMessageData(p), connected)>>)
              /\ UNCHANGED inflight
         [] path = "normalizing" ->
              LET text == Get(p.message)
                  entry == NormalizerEntry(text, translationCache)
              IN  IF entry = "miss"
                  THEN /\ inflight' = Append(inflight,
                              [payload |-> p, cleanedText |-> CleanText(text),
                               statusCode |-> OK])
                       /\ out' = Acknowledged(<<NormalizerCall(text),
                                                RemoteCall(CleanText(text))>>)
                  ELSE /\ UNCHANGED inflight
                       /\ out' = Acknowledged(<<NormalizerCall(text)>>
                              \o Broadcast(p, ImmediateResult(text, translationCache)))
    /\ Deliver

RemoveAt(s, i) == SubSeq(s, 1, i - 1) \o SubSeq(s, i + 1, Len(s))

\* a handler that looks at the threshold again after the remote call
RemoteReturnRecheckingGate(i, content) ==
    LET r == inflight[i]
        result == ConversionResult(content, r.cleanedText)
    IN  /\ step' = [op |-> "remote_return", request |-> r, content |-> content]
        /\ translationCache' = CacheSet(translationCache, r.cleanedText, result)
        /\ inflight' = RemoveAt(inflight, i)
        /\ out' = IF BelowThreshold(r.payload, ttsMinimumAmount)
                  THEN <<>>
                  ELSE Broadcast(r.payload, result)
        /\ UNCHANGED <<ttsMinimumAmount, connected>>
        /\ Deliver

\* the remote call of the i-th suspended handler resolves with `content`
RemoteReturn(i, content) ==
    LET r == inflight[i]
        result == ConversionResult(content, r.cleanedText)
    IN  /\ step' = [op |-> "remote_return", request |-> r, content |-> content]
        /\ translationCache' = CacheSet(translationCache, r.cleanedText, result)
        /\ inflight' = RemoveAt(inflight, i)
        /\ out' = Broadcast(r.payload, result)
        /\ UNCHANGED <<ttsMinimumAmount, connected>>
        /\ Deliver

\* a catch branch that also stores its fallback in the cache
RemoteFailCaching(i) ==
    LET r == inflight[i]
    IN  /\ step' = [op |-> "remote_fail", request |-> r]
        /\ translationCache' = CacheSet(translationCache, r.cleanedText, r.cleanedText)
        /\ inflight' = RemoveAt(inflight, i)
        /\ out' = Broadcast(r.payload, FailureResult(r.cleanedText))
        /\ UNCHANGED <<ttsMinimumAmount, connected>>
        /\ Deliver

\* the remote call of the i-th suspended handler rejects
RemoteFail(i) ==
    LET r == inflight[i]
    IN  /\ step' = [op |-> "remote_fail", request |-> r]
        /\ inflight' = RemoveAt(inflight, i)
        /\ out' = Broadcast(r.payload, FailureResult(r.cleanedText))
        /\ UNCHANGED <<ttsMinimumAmount, translationCache, connected>>
        /\ Deliver

----------------------------------------------------------------------------
(* GET /audio: the proxy of the speech synthesis *)

SynthesisCall(text) == [kind |-> "synthesis_call", text |-> text]
Headers(status) == [kind |-> "headers", status |-> status]
End == [kind |-> "end"]

\* a handler that puts the threshold back to its default
AudioFrameResettingThreshold ==
    /\ ttsMinimumAmount' = 0
    /\ UNCHANGED <<translationCache, inflight, connected, inbox, pageVars>>

\* what every run of the /audio handler leaves alone
AudioFrame == UNCHANGED <<ttsMinimumAmount, translationCache, inflight, connected, inbox, pageVars>>

\* a check that only looks for the parameter
MissingTextIfUndefined(text) == ~ IsDefined(text)

\* if (!text)
MissingText(text) == ~ Truthy(text)

\* app.get('/audio', ...) up to `await elevenlabs.textToSpeech.stream(...)`
AudioRequest(text) ==
    /\ step' = [op |-> "audio", text |-> text]
    /\ IF MissingText(text)
       THEN /\ out' = <<Response(BAD_REQUEST)>>
            /\ UNCHANGED streams
       ELSE /\ out' = <<SynthesisCall(Get(text))>>
            /\ streams' = Append(streams, [text |-> Get(text), phase |-> "awaiting",
                                           headersSent |-> FALSE])
    /\ AudioFrame

\* the synthesis call rejects: the catch block answers 500, no header was sent yet
SynthesisFails(i) ==
    /\ streams[i].phase = "awaiting"
    /\ step' = [op |-> "synthesis_fails", request |-> streams[i]]
    /\ out' = <<Log("ElevenLabs TTS error")>>
              \o (IF streams[i].headersSent THEN <<>> ELSE <<Response(SERVER_ERROR)>>)
    /\ streams' = RemoveAt(streams, i)
    /\ AudioFrame

\* the synthesis call resolves with a stream: Content-Type is set and the stream piped
SynthesisReturns(i) ==
    /\ streams[i].phase = "awaiting"
    /\ step' = [op |-> "synthesis_returns", request |-> streams[i]]
    /\ out' = <<>>
    /\ streams' = [streams EXCEPT ![i].phase = "piping"]
    /\ AudioFrame

\* the pipe writes the first bytes: the headers go out with the implicit status 200
FirstChunk(i) ==
    /\ streams[i].phase = "piping"
    /\ ~ streams[i].headersSent
    /\ step' = [op |-> "first_chunk", request |-> streams[i]]
    /\ out' = <<Headers(OK)>>
    /\ streams' = [streams EXCEPT ![i].headersSent = TRUE]
    /\ AudioFrame

\* the piped stream ends: pipe calls res.end()
StreamEnds(i) ==
    /\ streams[i].phase = "piping"
    /\ step' = [op |-> "stream_ends", request |-> streams[i]]
    /\ out' = (IF streams[i].headersSent THEN <<>> ELSE <<Headers(OK)>>) \o <<End>>
    /\ streams' = RemoveAt(streams, i)
    /\ AudioFrame

\* nodeStream.on('error', ...): 500 when no header was sent; otherwise the handler only
\* logs, and pipe leaves the response open on an error of its source
StreamError(i) ==
    /\ streams[i].phase = "piping"
    /\ step' = [op |-> "stream_error", request |-> streams[i]]
    /\ IF streams[i].headersSent
       THEN /\ out' = <<Log("Error piping stream")>>
            /\ streams' = [streams EXCEPT ![i].phase = "left_open"]
       ELSE /\ out' = <<Log("Error piping stream"), Response(SERVER_ERROR)>>
            /\ streams' = RemoveAt(streams, i)
    /\ AudioFrame

----------------------------------------------------------------------------
(* io.on('connection') and socket.on('set_threshold') *)

DigitValue(c) ==
    CASE c = "0" -> 0 [] c = "1" -> 1 [] c = "2" -> 2 [] c = "3" -> 3 [] c = "4" -> 4
      [] c = "5" -> 5 [] c = "6" -> 6 [] c = "7" -> 7 [] c = "8" -> 8 [] c = "9" -> 9

\* the value of the longest prefix of digits of s, None when s does not start with a digit
RECURSIVE LeadingDigits(_, _)
LeadingDigits(s, acc) ==
    IF s = <<>> \/ Head(s) \notin Digits THEN acc
    ELSE LeadingDigits(Tail(s),
             Some((IF IsDefined(acc) THEN Get(acc) ELSE 0) * 10 + DigitValue(Head(s))))

\* parseInt(newThreshold, 10); None is NaN
ParseInt(text) ==
    LET s == TrimStart(text)
        negative == s # <<>> /\ Head(s) = "-"
        unsigned == IF s # <<>> /\ Head(s) \in {"-", "+"} THEN Tail(s) ELSE s
        magnitude == LeadingDigits(unsigned, None)
    IN  IF ~ IsDefined(magnitude) THEN None
        ELSE IF negative THEN Some(0 - Get(magnitude)) ELSE magnitude

\* !isNaN(threshold) && threshold >= 0
ValidThreshold(threshold) == IsDefined(threshold) /\ Get(threshold) >= 0

\* a connection handler that sends the threshold the server started with
ConnectionSendingDefault(c) ==
    /\ c \notin connected
    /\ connected' = connected \cup {c}
    /\ step' = [op |-> "connection", socket |-> c]
    /\ out' = <<Emit("threshold_update", 0, {c})>>
    /\ UNCHANGED <<ttsMinimumAmount, translationCache, inflight>>
    /\ Deliver

Connection(c) ==
    /\ c \notin connected
    /\ connected' = connected \cup {c}
    /\ step' = [op |-> "connection", socket |-> c]
    /\ out' = <<Emit("threshold_update", ttsMinimumAmount, {c})>>
    /\ UNCHANGED <<ttsMinimumAmount, translationCache, inflight>>
    /\ Deliver

Disconnect(c) ==
    /\ c \in connected
    /\ connected' = connected \ {c}
    /\ step' = [op |-> "disconnect", socket |-> c]
    /\ out' = <<>>
    /\ UNCHANGED <<ttsMinimumAmount, translationCache, inflight>>
    /\ Deliver

\* a handler that does nothing when the value is the threshold it already has
SetThresholdOnChange(c, newThreshold) ==
    LET threshold == ParseInt(newThreshold) IN
    /\ c \in connected
    /\ step' = [op |-> "set_threshold", socket |-> c, value |-> newThreshold]
    /\ IF ValidThreshold(threshold) /\ Get(threshold) # ttsMinimumAmount
       THEN /\ ttsMinimumAmount' = Get(threshold)
            /\ out' = <<Emit("threshold_update", Get(threshold), connected)>>
       ELSE /\ UNCHANGED ttsMinimumAmount
            /\ out' = <<>>
    /\ UNCHANGED <<translationCache, inflight, connected>>
    /\ Deliver

SetThreshold(c, newThreshold) ==
    LET threshold == ParseInt(newThreshold) IN
    /\ c \in connected
    /\ step' = [op |-> "set_threshold", socket |-> c, value |-> newThreshold]
    /\ IF ValidThreshold(threshold)
       THEN /\ ttsMinimumAmount' = Get(threshold)
            /\ out' = <<Emit("threshold_update", Get(threshold), connected)>>
       ELSE /\ UNCHANGED ttsMinimumAmount
            /\ out' = <<>>
    /\ UNCHANGED <<translationCache, inflight, connected>>
    /\ Deliver

----------------------------------------------------------------------------
(* public/client.js: the player page *)

ClientEmit(event) == [kind |-> "client_emit", event |-> event]

\* the part of the page state processQueue reads and writes
PageState(c) ==
    [isPlaying |-> isPlaying[c], donationQueue |-> donationQueue[c], timers |-> timers[c]]

\* a scheduler that starts the pre-roll of the head entry and leaves it in the queue
ProcessQueueKeepingHead(ps, isUnlocked) ==
    IF ps.isPlaying \/ Len(ps.donationQueue) = 0 \/ ~ isUnlocked
    THEN ps
    ELSE [isPlaying     |-> TRUE,
          donationQueue |-> ps.donationQueue,
          timers        |-> Append(ps.timers, Head(ps.donationQueue))]

\* function processQueue(): a dequeue starts the pre-roll timer of the entry
ProcessQueue(ps, isUnlocked) ==
    IF ps.isPlaying \/ Len(ps.donationQueue) = 0 \/ ~ isUnlocked
    THEN ps
    ELSE [isPlaying     |-> TRUE,
          donationQueue |-> Tail(ps.donationQueue),
          timers        |-> Append(ps.timers, Head(ps.donationQueue))]

\* const onAudioEnd = () => {...}, after its socket.emit('audioFinished')
OnAudioEnd(ps, isUnlocked) == ProcessQueue([ps EXCEPT !.isPlaying = FALSE], isUnlocked)

\* pages that share one queue and one isPlaying flag
SetPageShared(c, ps) ==
    /\ isPlaying' = [d \in Pages |-> ps.isPlaying]
    /\ donationQueue' = [d \in Pages |-> ps.donationQueue]
    /\ timers' = [timers EXCEPT ![c] = ps.timers]

SetPage(c, ps) ==
    /\ isPlaying' = [isPlaying EXCEPT ![c] = ps.isPlaying]
    /\ donationQueue' = [donationQueue EXCEPT ![c] = ps.donationQueue]
    /\ timers' = [timers EXCEPT ![c] = ps.timers]

\* if (!ttsUrl): the reference is missing or the empty string
HasTtsUrl(data) == IsDefined(data.ttsUrl) /\ Get(data.ttsUrl) # <<>>

\* a listener that does not look at `unlocked`
OnDonationIgnoringLock(c, data) ==
    IF ~ HasTtsUrl(data)
    THEN SetPage(c, PageState(c))
    ELSE SetPage(c, ProcessQueue(
             [PageState(c) EXCEPT !.donationQueue = Append(@, data)], TRUE))

\* socket.on('donation', function(data) {...})
OnDonation(c, data) ==
    IF ~ unlocked[c]
    THEN SetPage(c, [PageState(c) EXCEPT !.donationQueue = Append(@, data)])
    ELSE IF ~ HasTtsUrl(data)
    THEN SetPage(c, PageState(c))
    ELSE SetPage(c, ProcessQueue(
             [PageState(c) EXCEPT !.donationQueue = Append(@, data)], TRUE))

\* a 'donation' packet reaches the socket of page c
Arrival(c, data) ==
    /\ Len(inbox[c]) < MaxInbox
    /\ Len(inbox[c]) + Held(c) < MaxQueue
    /\ inbox' = [inbox EXCEPT ![c] = Append(@, Emit("donation", data, {c}))]
    /\ step' = [op |-> "arrival", page |-> c]
    /\ out' = <<>>
    /\ UNCHANGED <<serverVars, pageVars>>

\* the page takes the next event off its socket; only 'donation' has a listener
Receive(c) ==
    /\ inbox[c] # <<>>
    /\ inbox' = [inbox EXCEPT ![c] = Tail(@)]
    /\ step' = [op |-> "receive", page |-> c, event |-> Head(inbox[c])]
    /\ out' = <<>>
    /\ IF Head(inbox[c]).event = "donation"
       THEN OnDonation(c, Head(inbox[c]).data)
       ELSE SetPage(c, PageState(c))
    /\ UNCHANGED <<serverVars, unlocked, audios, resuming>>

\* enableBtn.onclick; the button is hidden once clicked.
\* context: "running", "suspended" (resume() is pending) or "throws"
EnableAudio(c, context) ==
    /\ ~ unlocked[c]
    /\ unlocked' = [unlocked EXCEPT ![c] = TRUE]
    /\ step' = [op |-> "enable_audio", page |-> c, context |-> context]
    /\ out' = <<>>
    /\ IF context = "suspended"
       THEN /\ resuming' = [resuming EXCEPT ![c] = TRUE]
            /\ SetPage(c, PageState(c))
       ELSE /\ UNCHANGED resuming
            /\ SetPage(c, ProcessQueue(PageState(c), TRUE))
    /\ UNCHANGED <<serverVars, inbox, audios>>

\* audioContext.resume() settles: .then calls processQueue, .catch only logs
ResumeSettles(c, resolved) ==
    /\ resuming[c]
    /\ resuming' = [resuming EXCEPT ![c] = FALSE]
    /\ step' = [op |-> "resume_settles", page |-> c, resolved |-> resolved]
    /\ out' = <<>>
    /\ IF resolved
       THEN SetPage(c, ProcessQueue(PageState(c), unlocked[c]))
       ELSE SetPage(c, PageState(c))
    /\ UNCHANGED <<serverVars, inbox, unlocked, audios>>

\* the setTimeout callback: new Audio(ttsUrl), listeners, audio.play()
TimerFires(c) ==
    /\ timers[c] # <<>>
    /\ timers' = [timers EXCEPT ![c] = Tail(@)]
    /\ audios' = [audios EXCEPT ![c] = Append(@, [data |-> Head(timers[c]), phase |-> "loading"])]
    /\ step' = [op |-> "timer", page |-> c, data |-> Head(timers[c])]
    /\ out' = <<>>
    /\ UNCHANGED <<serverVars, inbox, unlocked, donationQueue, isPlaying, resuming>>

\* audio.play() resolves: playback has started
PlayStarted(c, k) ==
    /\ k \in 1..Len(audios[c])
    /\ audios[c][k].phase = "loading"
    /\ audios' = [audios EXCEPT ![c][k].phase = "playing"]
    /\ step' = [op |-> "play_started", page |-> c, data |-> audios[c][k].data]
    /\ out' = <<>>
    /\ UNCHANGED <<serverVars, inbox, unlocked, donationQueue, isPlaying, timers, resuming>>

\* the completion handler runs `calls` times for the element k, which is then finished
Completion(c, k, calls) ==
    /\ audios' = [audios EXCEPT ![c] = RemoveAt(@, k)]
    /\ out' = [n \in 1..calls |-> ClientEmit("audioFinished")]
    /\ SetPage(c, IF calls = 2
                  THEN OnAudioEnd(OnAudioEnd(PageState(c), unlocked[c]), unlocked[c])
                  ELSE OnAudioEnd(PageState(c), unlocked[c]))
    /\ UNCHANGED <<serverVars, inbox, unlocked, resuming>>

\* the 'ended' event of a playing element: onAudioEnd
Ended(c, k) ==
    /\ k \in 1..Len(audios[c])
    /\ audios[c][k].phase = "playing"
    /\ step' = [op |-> "ended", page |-> c, data |-> audios[c][k].data]
    /\ Completion(c, k, 1)

\* the 'error' event of a playing element: onAudioError, which calls onAudioEnd
PlaybackError(c, k) ==
    /\ k \in 1..Len(audios[c])
    /\ audios[c][k].phase = "playing"
    /\ step' = [op |-> "playback_error", page |-> c, data |-> audios[c][k].data]
    /\ Completion(c, k, 1)

\* play() rejects without an 'error' event (playback not allowed): the catch calls onAudioEnd
PlayRejected(c, k) ==
    /\ k \in 1..Len(audios[c])
    /\ audios[c][k].phase = "loading"
    /\ step' = [op |-> "play_rejected", page |-> c, data |-> audios[c][k].data]
    /\ Completion(c, k, 1)

\* the resource fails to load: the element fires 'error' (onAudioError -> onAudioEnd)
\* and then rejects the pending play() promise (catch -> onAudioEnd), in one task
LoadFailed(c, k) ==
    /\ k \in 1..Len(audios[c])
    /\ audios[c][k].phase = "loading"
    /\ step' = [op |-> "load_failed", page |-> c, data |-> audios[c][k].data]
    /\ Completion(c, k, 2)

----------------------------------------------------------------------------
(* Inputs *)

LongAnswer == [i \in 1..(MAX_TTS_LEN + 1) |-> "x"]

Diamonds == Some([name |-> Some(<<"D", "I", "A", "M", "O", "N", "D", "s">>)])
Dia == Some([name |-> Some(<<"D", "i", "a">>)])
Unnamed == Some([name |-> None])
Ali == Some([username |-> Some("Ali")])

\* cleans to "9a": a pictograph, an apostrophe after a digit and outer blanks go
Spoken == Some(<<" ", "9", "'", "EMOJI", "a", " ">>)
Plain == Some(<<"9", "a">>)                \* the text Spoken is cleaned to
EmojiOnly == Some(<<"EMOJI">>)
BlankOnly == Some(<<" ">>)
EmptyString == Some(<<>>)

PaymentIDs == {None, Some("p1")}
Amounts == {None, Some(1)}
Assets == {None, Unnamed, Diamonds, Dia}
Donors == {None, Ali}
Messages == {None, EmptyString, BlankOnly, EmojiOnly, Spoken}

\* every presence pattern of the required fields, gated and ungated, with and without text
ValidationInputs ==
    [paymentID : PaymentIDs, amount : Amounts, asset : {None, Diamonds},
     donor : {Ali}, message : {None, Spoken}]

\* every asset, donor and message of a request that has its required fields
ProcessingInputs ==
    [paymentID : {Some("p1")}, amount : {Some(1)}, asset : Assets \ {None},
     donor : Donors, message : Messages]

\* a second raw text with the cleaned text of Spoken
CacheInputs ==
    [paymentID : {Some("p1")}, amount : {Some(1)}, asset : {Unnamed},
     donor : {None}, message : {Plain}]

Payloads == ValidationInputs \cup ProcessingInputs \cup CacheInputs

RemoteContents == {None, Some(<<"*", "*", "x", "*", "*", "NL", "y">>), Some(LongAnswer)}

DecimalDigit(n) == CHOOSE d \in Digits : DigitValue(d) = n

ThresholdInputs ==
    {<<DecimalDigit(n)>> : n \in 0..MaxThreshold} \cup {<<"-", "1">>, <<"a">>, <<"1", "a">>}

\* what reaches a player page
PlayerPayloads ==
    [paymentID : {Some("p1")}, amount : {Some(1)}, asset : {Dia},
     donor : {Ali}, message : {EmojiOnly, Spoken}]

PlayerContents == {Some(<<"x">>)}

\* what reaches two pages at once
PagesPayloads == {p \in PlayerPayloads : p.message = Spoken}

AudioContexts == {"running", "suspended", "throws"}

\* the sockets of two threshold panels
Panels == {"panel", "panel2"}

\* donations without a message: gated or not, each is suppressed or announced to every
\* connected socket at once
PanelPayloads ==
    [paymentID : {Some("p1")}, amount : {Some(1)}, asset : {Diamonds, Dia},
     donor : {None, Ali}, message : {None, EmptyString}]

\* 'donation' events as a page can find them on its socket: with an audio reference,
\* without one, and with an empty one
PageEvents ==
    LET data == DonationData([paymentID |-> Some("p1"), amount |-> Some(1), asset |-> Dia,
                              donor |-> Ali, message |-> Spoken], <<"x">>)
    IN  {data, [data EXCEPT !.ttsUrl = None], [data EXCEPT !.ttsUrl = Some(<<>>)]}

\* a message longer than the synthesis limit
LongMessage == Some([i \in 1..(MAX_TTS_LEN + 1) |-> "a"])

\* requests that reach the normalizer: two raw texts with one cleaned text, and a long one
OverlapInputs ==
    [paymentID : {Some("p1")}, amount : {Some(1)}, asset : {Unnamed},
     donor : {None}, message : {Spoken, Plain, LongMessage}]

\* the text parameter of GET /audio: absent, empty, and two texts
AudioTexts == {None, EmptyString, Some(<<"x">>), Some(<<"9", "a">>)}

----------------------------------------------------------------------------
(* Specifications *)

Init ==
    /\ ttsMinimumAmount = 0
    /\ translationCache = <<>>
    /\ inflight = <<>>
    /\ connected = {}
    /\ streams = <<>>
    /\ step = [op |-> "listen"]
    /\ out = <<>>
    /\ inbox = [c \in Pages |-> <<>>]
    /\ unlocked = [c \in Pages |-> FALSE]
    /\ donationQueue = [c \in Pages |-> <<>>]
    /\ isPlaying = [c \in Pages |-> FALSE]
    /\ timers = [c \in Pages |-> <<>>]
    /\ audios = [c \in Pages |-> <<>>]
    /\ resuming = [c \in Pages |-> FALSE]

\* the server with the sockets of the threshold panel
Next ==
    \/ \E p \in Payloads : Webhook(p) /\ Len(inflight') <= MaxInFlight
    \/ \E i \in 1..Len(inflight) : \E content \in RemoteContents : RemoteReturn(i, content)
    \/ \E i \in 1..Len(inflight) : RemoteFail(i)
    \/ \E c \in Controllers : Connection(c)
    \/ \E c \in Controllers : Disconnect(c)
    \/ \E c \in Controllers : \E v \in ThresholdInputs : SetThreshold(c, v)

Spec == Init /\ [][Next]_vars

\* the server with player pages
PlayerNext ==
    \/ \E p \in PlayerPayloads : Webhook(p) /\ Len(inflight') <= MaxPending
    \/ \E i \in 1..Len(inflight) : \E content \in PlayerContents : RemoteReturn(i, content)
    \/ \E i \in 1..Len(inflight) : RemoteFail(i)
    \/ \E c \in Players : Connection(c)
    \/ \E c \in Players : Receive(c)
    \/ \E c \in Players : \E context \in AudioContexts : EnableAudio(c, context)
    \/ \E c \in Players : \E resolved \in BOOLEAN : ResumeSettles(c, resolved)
    \/ \E c \in Players : TimerFires(c)
    \/ \E c \in Players : \E k \in 1..Len(audios[c]) : PlayStarted(c, k)
    \/ \E c \in Players : \E k \in 1..Len(audios[c]) : Ended(c, k)
    \/ \E c \in Players : \E k \in 1..Len(audios[c]) : PlaybackError(c, k)
    \/ \E c \in Players : \E k \in 1..Len(audios[c]) : PlayRejected(c, k)
    \/ \E c \in Players : \E k \in 1..Len(audios[c]) : LoadFailed(c, k)

PlayerSpec == Init /\ [][PlayerNext]_vars

\* the server with two panels that connect, disconnect and set the threshold
PanelNext ==
    \/ \E p \in PanelPayloads : Webhook(p)
    \/ \E c \in Panels : Connection(c)
    \/ \E c \in Panels : Disconnect(c)
    \/ \E c \in Panels : \E v \in ThresholdInputs : SetThreshold(c, v)

PanelSpec == Init /\ [][PanelNext]_vars

\* the server with several webhook handlers suspended in the remote call at once
OverlapNext ==
    \/ \E p \in OverlapInputs : Webhook(p) /\ Len(inflight') <= MaxOverlap
    \/ \E i \in 1..Len(inflight) : \E content \in RemoteContents : RemoteReturn(i, content)
    \/ \E i \in 1..Len(inflight) : RemoteFail(i)
    \/ \E c \in Controllers : Connection(c)

OverlapSpec == Init /\ [][OverlapNext]_vars

\* the server answering audio requests while donations are processed and the threshold
\* is set
AudioNext ==
    \/ \E text \in AudioTexts : AudioRequest(text) /\ Len(streams') <= MaxStreams
    \/ \E i \in 1..Len(streams) : SynthesisFails(i)
    \/ \E i \in 1..Len(streams) : SynthesisReturns(i)
    \/ \E i \in 1..Len(streams) : FirstChunk(i)
    \/ \E i \in 1..Len(streams) : StreamEnds(i)
    \/ \E i \in 1..Len(streams) : StreamError(i)
    \/ \E p \in CacheInputs : Webhook(p) /\ Len(inflight') <= MaxPending
    \/ \E i \in 1..Len(inflight) : \E content \in PlayerContents : RemoteReturn(i, content)
    \/ \E c \in Controllers : Connection(c)
    \/ \E c \in Controllers : \E v \in ThresholdInputs : SetThreshold(c, v)

AudioSpec == Init /\ [][AudioNext]_vars

\* the server with two player pages
PagesNext ==
    \/ \E p \in PagesPayloads : Webhook(p) /\ Len(inflight') <= MaxPending
    \/ \E i \in 1..Len(inflight) : \E content \in PlayerContents : RemoteReturn(i, content)
    \/ \E c \in Pages : Connection(c)
    \/ \E c \in Pages : Receive(c)
    \/ \E c \in Pages : \E context \in AudioContexts : EnableAudio(c, context)
    \/ \E c \in Pages : \E resolved \in BOOLEAN : ResumeSettles(c, resolved)
    \/ \E c \in Pages : TimerFires(c)
    \/ \E c \in Pages : \E k \in 1..Len(audios[c]) : PlayStarted(c, k)
    \/ \E c \in Pages : \E k \in 1..Len(audios[c]) : Ended(c, k)
    \/ \E c \in Pages : \E k \in 1..Len(audios[c]) : PlaybackError(c, k)
    \/ \E c \in Pages : \E k \in 1..Len(audios[c]) : PlayRejected(c, k)
    \/ \E c \in Pages : \E k \in 1..Len(audios[c]) : LoadFailed(c, k)

PagesSpec == Init /\ [][PagesNext]_vars

\* a player page alone, with the events of its socket as input
PageNext ==
    \/ \E c \in Players : \E data \in PageEvents : Arrival(c, data)
    \/ \E c \in Players : Receive(c)
    \/ \E c \in Players : \E context \in AudioContexts : EnableAudio(c, context)
    \/ \E c \in Players : \E resolved \in BOOLEAN : ResumeSettles(c, resolved)
    \/ \E c \in Players : TimerFires(c)
    \/ \E c \in Players : \E k \in 1..Len(audios[c]) : PlayStarted(c, k)
    \/ \E c \in Players : \E k \in 1..Len(audios[c]) : Ended(c, k)
    \/ \E c \in Players : \E k \in 1..Len(audios[c]) : PlaybackError(c, k)
    \/ \E c \in Players : \E k \in 1..Len(audios[c]) : PlayRejected(c, k)
    \/ \E c \in Players : \E k \in 1..Len(audios[c]) : LoadFailed(c, k)

PageSpec == Init /\ [][PageNext]_vars

\* the event loop of a page runs every task that is ready: delivered socket events,
\* the settling of resume(), elapsed timers, and the events of a started audio element
PageFairness(c) ==
    /\ WF_vars(Receive(c))
    /\ WF_vars(\E resolved \in BOOLEAN : ResumeSettles(c, resolved))
    /\ WF_vars(TimerFires(c))
    /\ WF_vars(\E k \in 1..Len(audios[c]) :
                  \/ PlayStarted(c, k)
                  \/ Ended(c, k)
                  \/ PlaybackError(c, k)
                  \/ PlayRejected(c, k)
                  \/ LoadFailed(c, k))

PlayerFairSpec == PlayerSpec /\ \A c \in Players : PageFairness(c)

----------------------------------------------------------------------------
(* Properties *)

Responses(o) == SelectSeq(o, LAMBDA e : e.kind = "response")
Emits(o) == SelectSeq(o, LAMBDA e : e.kind = "emit")
EmitsOf(o, event) == SelectSeq(o, LAMBDA e : e.kind = "emit" /\ e.event = event)
Invocations(o) == SelectSeq(o, LAMBDA e : e.kind \in {"normalize", "remote_call"})
Is200(e) == e.kind = "response" /\ e.status = 200
Is400(e) == e.kind = "response" /\ e.status = 400

\* the request lacks paymentID, amount or asset
LacksRequired(p) == p.paymentID = <<>> \/ p.amount = <<>> \/ p.asset = <<>>

DiamondLetters ==
    <<{"d", "D"}, {"i", "I"}, {"a", "A"}, {"m", "M"}, {"o", "O"}, {"n", "N"}, {"d", "D"}>>

\* the asset has a name that starts with 'diamond' in any letter case
InGatedCategory(p) ==
    /\ p.asset # <<>>
    /\ p.asset[1].name # <<>>
    /\ Len(p.asset[1].name[1]) >= Len(DiamondLetters)
    /\ \A i \in 1..Len(DiamondLetters) : p.asset[1].name[1][i] \in DiamondLetters[i]

\* the handler run stopped at the threshold gate
StoppedAtGate(o) == Len(o) = 2 /\ Is200(o[1]) /\ o[2].kind = "log" /\ o[2].line = "below threshold"

OnlyBlanks(text) == \A i \in 1..Len(text) : text[i] \in {" ", "NL"}
OnlyPictographs(text) == \A i \in 1..Len(text) : text[i] = "EMOJI"

\* C1: a webhook payload without paymentID, amount or asset is answered with 400 and
\* nothing else: no event is emitted, the normalizer is not called, and the threshold,
\* the translation cache and the suspended handlers stay as they were.
C1_MissingFieldsRejected ==
    [][(step'.op = "webhook" /\ LacksRequired(step'.payload))
          => /\ Len(Responses(out')) = 1
             /\ Is400(Responses(out')[1])
             /\ Emits(out') = <<>>
             /\ Invocations(out') = <<>>
             /\ ttsMinimumAmount' = ttsMinimumAmount
             /\ translationCache' = translationCache
             /\ inflight' = inflight]_vars

C1_Witness ==
    /\ step.op = "webhook"
    /\ LacksRequired(step.payload)
    /\ step.payload.message # <<>>
    /\ Len(Responses(out)) = 1 /\ Is400(Responses(out)[1])
    /\ ttsMinimumAmount > 0
    /\ DOMAIN translationCache # {}

C3_AcknowledgedFirst ==
    /\ step.op = "webhook"
         => \A i \in 1..Len(out) :
                out[i].kind \in {"normalize", "remote_call", "emit"}
                    => (i > 1 /\ Is200(out[1]))
    /\ step.op \in {"remote_return", "remote_fail"} => step.request.statusCode = 200
    /\ \A i \in 1..Len(inflight) : inflight[i].statusCode = 200

C3_Witness ==
    /\ step.op = "webhook"
    /\ Len(out) = 3
    /\ Is200(out[1])
    /\ out[2].kind = "normalize"
    /\ out[3].kind = "remote_call"

\* C4: the handler run of a webhook request sends exactly one response, 200 when
\* paymentID, amount and asset are present and 400 otherwise; the resumption after the
\* remote call, whether it returned or failed, sends none.
C4_OneResponseByValidation ==
    /\ step.op = "webhook"
         => /\ Len(Responses(out)) = 1
            /\ Responses(out)[1].status = (IF LacksRequired(step.payload) THEN 400 ELSE 200)
    /\ step.op \in {"remote_return", "remote_fail"} => Responses(out) = <<>>

C4_Witness ==
    /\ step.op = "remote_fail"
    /\ Responses(out) = <<>>
    /\ EmitsOf(out, "donation") # <<>>

\* the request passed validation, its asset is in the gated category and its amount is
\* strictly below `threshold`
ThresholdSuppressed(p, threshold) ==
    ~ LacksRequired(p) /\ InGatedCategory(p) /\ p.amount[1] < threshold

\* the message is missing or the empty string
AbsentOrEmpty(p) == p.message = <<>> \/ p.message[1] = <<>>

\* the message has characters and all of them are whitespace
WhitespaceOnly(p) ==
    p.message # <<>> /\ p.message[1] # <<>> /\ OnlyBlanks(p.message[1])

\* the donor name an event is expected to carry
ExpectedDonor(p) ==
    IF p.donor # <<>> /\ p.donor[1].username # <<>>
    THEN p.donor[1].username[1]
    ELSE "Anonymous"

\* the requests whose handler has run to its end in the last step
CompletedRequests ==
    IF step.op = "webhook" /\ \A i \in 1..Len(out) : out[i].kind # "remote_call"
    THEN {step.payload}
    ELSE IF step.op \in {"remote_return", "remote_fail"} THEN {step.request.payload}
    ELSE {}

\* C5: when the handler of a validated request that is not threshold-suppressed and has
\* a present, non-blank message has run to its end (the remote call, if one was made,
\* having returned or failed), it has broadcast exactly one 'donation' event to all
\* connected clients, with the donor name or 'Anonymous', a non-empty normalized text
\* and a non-null audio reference.
C5_OneDonationForSpokenRequest ==
    \A p \in CompletedRequests :
        (/\ ~ LacksRequired(p)
         /\ ~ ThresholdSuppressed(p, ttsMinimumAmount)
         /\ ~ AbsentOrEmpty(p)
         /\ ~ WhitespaceOnly(p))
            => /\ Len(EmitsOf(out, "donation")) = 1
               /\ EmitsOf(out, "donation")[1].to = connected
               /\ EmitsOf(out, "donation")[1].data.donor = ExpectedDonor(p)
               /\ EmitsOf(out, "donation")[1].data.arabicText # <<>>
               /\ EmitsOf(out, "donation")[1].data.ttsUrl # <<>>

\* C6 as stated: a validated request that is not threshold-suppressed and whose message
\* is missing, the empty string or whitespace only broadcasts one 'donation_nomessage'
\* event carrying only donor, amount and asset, broadcasts no 'donation' event and
\* processes nothing further.
C6_BlankAnnouncedAsNoMessage ==
    (/\ step.op = "webhook"
     /\ ~ LacksRequired(step.payload)
     /\ ~ ThresholdSuppressed(step.payload, ttsMinimumAmount)
     /\ (AbsentOrEmpty(step.payload) \/ WhitespaceOnly(step.payload)))
        => /\ Len(EmitsOf(out, "donation_nomessage")) = 1
           /\ DOMAIN EmitsOf(out, "donation_nomessage")[1].data = {"donor", "amount", "asset"}
           /\ EmitsOf(out, "donation") = <<>>
           /\ Invocations(out) = <<>>

\* C6, amended: of the validated requests that are not threshold-suppressed, one whose
\* message is missing or the empty string broadcasts exactly one 'donation_nomessage'
\* event to all connected clients, carrying only donor, amount and asset, and one whose
\* message is non-empty but whitespace only broadcasts no event at all; in both cases
\* no 'donation' event is broadcast and the normalizer is not called.
C6_NoMessageAnnouncedBlankSilent ==
    (/\ step.op = "webhook"
     /\ ~ LacksRequired(step.payload)
     /\ ~ ThresholdSuppressed(step.payload, ttsMinimumAmount))
        => /\ AbsentOrEmpty(step.payload)
                => /\ Len(Emits(out)) = 1
                   /\ Emits(out)[1].event = "donation_nomessage"
                   /\ Emits(out)[1].to = connected
                   /\ DOMAIN Emits(out)[1].data = {"donor", "amount", "asset"}
                   /\ Emits(out)[1].data.donor = ExpectedDonor(step.payload)
                   /\ Emits(out)[1].data.amount = step.payload.amount[1]
                   /\ Invocations(out) = <<>>
           /\ WhitespaceOnly(step.payload)
                => /\ Emits(out) = <<>>
                   /\ Invocations(out) = <<>>

C6_Witness ==
    /\ step.op = "webhook"
    /\ ~ LacksRequired(step.payload)
    /\ ~ ThresholdSuppressed(step.payload, ttsMinimumAmount)
    /\ InGatedCategory(step.payload)
    /\ step.payload.message = <<<<>>>>
    /\ step.payload.donor = <<>>
    /\ Len(EmitsOf(out, "donation_nomessage")) = 1
    /\ connected # {}

\* C7: a threshold-suppressed request broadcasts no event, neither 'donation' nor
\* 'donation_nomessage', whether or not it has a message: the gate comes before the
\* message check.
C7_SuppressedEmitsNothing ==
    (step.op = "webhook" /\ ThresholdSuppressed(step.payload, ttsMinimumAmount))
        => /\ Emits(out) = <<>>
           /\ Invocations(out) = <<>>

C7_Witness ==
    /\ step.op = "webhook"
    /\ ThresholdSuppressed(step.payload, ttsMinimumAmount)
    /\ step.payload.message = <<>>
    /\ Emits(out) = <<>>
    /\ connected # {}

\* C8: a request that fails validation, is threshold-suppressed or has a missing, empty
\* or whitespace-only message calls neither the normalizer nor the remote service,
\* leaves the translation cache and the suspended handlers as they were, and emits no
\* event with an audio reference; only requests with a message are ever suspended on
\* the remote call.
C8_NormalizerOnlyOnNormalizingPath ==
    [][(/\ step'.op = "webhook"
        /\ \/ LacksRequired(step'.payload)
           \/ ThresholdSuppressed(step'.payload, ttsMinimumAmount)
           \/ AbsentOrEmpty(step'.payload)
           \/ WhitespaceOnly(step'.payload))
          => /\ Invocations(out') = <<>>
             /\ translationCache' = translationCache
             /\ inflight' = inflight
             /\ \A i \in 1..Len(out') :
                    out'[i].kind = "emit" => "ttsUrl" \notin DOMAIN out'[i].data]_vars

C8_Witness ==
    /\ step.op = "webhook"
    /\ ~ LacksRequired(step.payload)
    /\ WhitespaceOnly(step.payload)
    /\ Invocations(out) = <<>>
    /\ Emits(out) = <<>>
    /\ DOMAIN translationCache # {}

\* C9: every broadcast 'donation' event has a non-empty normalized text, and when the
\* remote call failed or returned nothing that text is the cleaned original text.
C9_DonationTextPopulated ==
    \A i \in 1..Len(out) :
        (out[i].kind = "emit" /\ out[i].event = "donation")
            => /\ out[i].data.arabicText # <<>>
               /\ (step.op = "remote_fail"
                     \/ (step.op = "remote_return" /\ step.content = <<>>))
                    => out[i].data.arabicText = step.request.cleanedText

\* the text is made of whitespace only or of pictographs only
StrippedToNothing(text) == OnlyBlanks(text) \/ OnlyPictographs(text)

\* the entries page c holds: queued, taken off the queue, or handed to an audio element
EntriesOf(c) ==
    {donationQueue[c][i] : i \in 1..Len(donationQueue[c])}
        \cup {timers[c][i] : i \in 1..Len(timers[c])}
        \cup {audios[c][i].data : i \in 1..Len(audios[c])}

\* C10: a message made only of whitespace or only of pictographs has an empty
\* normalized text, and no page ever enqueues, dequeues or hands to an audio element an
\* entry for its request.
C10_NoPlaybackForStrippedMessage ==
    /\ \A i \in 1..Len(out) :
           (/\ out[i].kind = "emit"
            /\ out[i].event = "donation"
            /\ StrippedToNothing(out[i].data.original))
               => out[i].data.arabicText = <<>>
    /\ \A c \in Players : \A e \in EntriesOf(c) : ~ StrippedToNothing(e.original)

\* the text the handler hands to arabiziToArabic in this run, if it does
NormalizedIn(o) == {o[i].text : i \in {j \in 1..Len(o) : o[j].kind = "normalize"}}

RemoteCallsIn(o) == {o[i].text : i \in {j \in 1..Len(o) : o[j].kind = "remote_call"}}

\* C11: when the remote call fails the handler still gets a value, the cleaned original
\* text, and broadcasts it; the failure stores nothing in the translation cache, and a
\* call whose cleaned input is not in the cache makes a remote call with it.
C11_FailureFallsBackUncached ==
    [][/\ step'.op = "remote_fail"
            => /\ translationCache' = translationCache
               /\ Len(EmitsOf(out', "donation")) = 1
               /\ EmitsOf(out', "donation")[1].data.arabicText
                      = CleanText(EmitsOf(out', "donation")[1].data.original)
               /\ EmitsOf(out', "donation")[1].data.arabicText # <<>>
       /\ step'.op = "webhook"
            => \A text \in NormalizedIn(out') :
                   (CleanText(text) # <<>> /\ CleanText(text) \notin DOMAIN translationCache)
                       => RemoteCallsIn(out') = {CleanText(text)}]_vars

\* a failed call has broadcast the cleaned text and left the cache without the input
C11_Witness ==
    /\ step.op = "remote_fail"
    /\ Len(EmitsOf(out, "donation")) = 1
    /\ EmitsOf(out, "donation")[1].data.arabicText = <<"9", "a">>
    /\ EmitsOf(out, "donation")[1].data.original # <<"9", "a">>
    /\ <<"9", "a">> \notin DOMAIN translationCache

\* C12: a call whose cleaned input is already in the translation cache makes no remote
\* call and yields exactly the cached result, which is the result the call that filled
\* the cache returned.
C12_CachedResultWithoutRemoteCall ==
    /\ step.op = "webhook"
         => \A text \in NormalizedIn(out) :
                CleanText(text) \in DOMAIN translationCache
                    => /\ RemoteCallsIn(out) = {}
                       /\ Len(EmitsOf(out, "donation")) = 1
                       /\ EmitsOf(out, "donation")[1].data.arabicText
                              = translationCache[CleanText(text)]
    /\ step.op = "remote_return"
         => /\ Len(EmitsOf(out, "donation")) = 1
            /\ CleanText(EmitsOf(out, "donation")[1].data.original) \in DOMAIN translationCache
            /\ EmitsOf(out, "donation")[1].data.arabicText
                   = translationCache[CleanText(EmitsOf(out, "donation")[1].data.original)]

\* a second call with the cleaned input "9a" is answered from the cache
C12_Witness ==
    /\ step.op = "webhook"
    /\ NormalizedIn(out) # {}
    /\ RemoteCallsIn(out) = {}
    /\ <<"9", "a">> \in DOMAIN translationCache
    /\ Len(EmitsOf(out, "donation")) = 1
    /\ EmitsOf(out, "donation")[1].data.arabicText = <<"x">>

\* the entries of page c that were dequeued and have not completed: waiting for the
\* pre-roll timer, or handed to an audio element
InFlight(c) == Len(timers[c]) + Len(audios[c])

\* C13: on every page, in every reachable state, at most one entry has been dequeued
\* and has not yet completed, counting pending pre-roll timers and audio elements.
C13_AtMostOnePlaybackInFlight ==
    \A c \in Players : InFlight(c) <= 1

\* the entries of page c whose playback has not started, oldest first: the dequeued
\* ones waiting for their pre-roll, then the queued ones
NotStarted(c) == timers[c] \o donationQueue[c]

\* C14: on every page playback starts in arrival order: an arriving entry goes behind
\* all entries that have not started, the entry whose playback starts is the oldest of
\* them, and it starts only when every entry started before it has completed.
C14_PlaybackInArrivalOrder ==
    [][\A c \in Players :
          IF step'.op = "timer" /\ step'.page = c
          THEN /\ NotStarted(c) # <<>>
               /\ step'.data = Head(NotStarted(c))
               /\ timers'[c] \o donationQueue'[c] = Tail(NotStarted(c))
               /\ audios[c] = <<>>
          ELSE \/ timers'[c] \o donationQueue'[c] = NotStarted(c)
               \/ /\ step'.op = "receive"
                  /\ step'.page = c
                  /\ timers'[c] \o donationQueue'[c]
                         = Append(NotStarted(c), step'.event.data)]_vars

\* C15: on an unlocked page a playback error or a play() rejection on an entry clears
\* isPlaying and dequeues the next entry, and whenever the page has a queued entry and
\* no pre-roll pending, a dequeue eventually follows, given that timers fire and every
\* started playback ends or fails.
C15_QueueKeepsMoving ==
    /\ [][\A c \in Players :
             (/\ step'.op \in {"playback_error", "play_rejected", "load_failed"}
              /\ step'.page = c
              /\ unlocked[c])
                 => IF donationQueue[c] = <<>>
                    THEN ~ isPlaying'[c]
                    ELSE /\ Len(donationQueue'[c]) < Len(donationQueue[c])
                         /\ Head(donationQueue[c])
                                \in {timers'[c][i] : i \in 1..Len(timers'[c])}]_vars
    /\ \A c \in Players :
           (unlocked[c] /\ donationQueue[c] # <<>> /\ timers[c] = <<>>)
               ~> (timers[c] # <<>>)

IsPrefix(s, t) == Len(s) <= Len(t) /\ SubSeq(t, 1, Len(s)) = s

\* C16: while a page is locked, every donation event it receives is appended to its
\* queue and nothing leaves the queue: isPlaying is false, no pre-roll timer is pending
\* and no audio element exists.
C16_LockedPageOnlyQueues ==
    [][\A c \in Players :
          /\ ~ unlocked'[c]
               => /\ ~ isPlaying'[c]
                  /\ timers'[c] = <<>>
                  /\ audios'[c] = <<>>
                  /\ IsPrefix(donationQueue[c], donationQueue'[c])
          /\ (/\ ~ unlocked[c]
              /\ step'.op = "receive"
              /\ step'.page = c
              /\ step'.event.event = "donation")
               => donationQueue'[c] = Append(donationQueue[c], step'.event.data)]_vars

C16_Witness ==
    \E c \in Players :
        /\ ~ unlocked[c]
        /\ step.op = "receive"
        /\ step.page = c
        /\ step.event.event = "donation"
        /\ Len(donationQueue[c]) = 2
        /\ donationQueue[c][2] = step.event.data

\* the event carries an audio reference
HasAudioReference(data) == data.ttsUrl # <<>> /\ data.ttsUrl[1] # <<>>

IsNumeral(text) == text # <<>> /\ \A i \in 1..Len(text) : text[i] \in Digits

RECURSIVE NumeralValue(_)
NumeralValue(text) ==
    IF text = <<>> THEN 0
    ELSE NumeralValue(SubSeq(text, 1, Len(text) - 1)) * 10 + DigitValue(text[Len(text)])

\* C18: when a connected socket sends set_threshold with a non-negative integer v, the
\* threshold is v afterwards and one threshold_update carrying v goes to every connected
\* socket, the sender included, also when v is the threshold already in force.
C18_ValidThresholdSetAndBroadcast ==
    (step.op = "set_threshold" /\ IsNumeral(step.value))
        => /\ ttsMinimumAmount = NumeralValue(step.value)
           /\ Len(Emits(out)) = 1
           /\ Emits(out)[1].event = "threshold_update"
           /\ Emits(out)[1].data = NumeralValue(step.value)
           /\ Emits(out)[1].to = connected
           /\ step.socket \in connected

C18_Witness ==
    /\ step.op = "set_threshold"
    /\ step.value = <<"2">>
    /\ ttsMinimumAmount = 2
    /\ Len(Emits(out)) = 1
    /\ Emits(out)[1].data = 2
    /\ step.socket \in Emits(out)[1].to
    /\ Emits(out)[1].to # {step.socket}

\* C19: when a socket sends set_threshold with a value that is not the numeral of a
\* non-negative integer (non-numeric or negative), the threshold stays as it was and no
\* event is sent to any socket.
C19_InvalidThresholdIgnored ==
    [][(step'.op = "set_threshold" /\ ~ IsNumeral(step'.value))
          => /\ ttsMinimumAmount' = ttsMinimumAmount
             /\ Emits(out') = <<>>]_vars

\* the events of one handler run that are sent to socket c, in order
SentTo(o, c) == SelectSeq(o, LAMBDA e : e.kind = "emit" /\ c \in e.to)

\* C20: a socket that connects is sent a threshold_update with the threshold in force at
\* that moment, and nothing is sent to it before: no handler run sends an event to a
\* socket that is not connected, and the update is the first event of the connecting run.
C20_ThresholdSentFirstOnConnect ==
    [][\A c \in Panels :
          c \notin connected
              => IF c \in connected'
                 THEN /\ SentTo(out', c) # <<>>
                      /\ SentTo(out', c)[1].event = "threshold_update"
                      /\ SentTo(out', c)[1].data = ttsMinimumAmount
                      /\ ttsMinimumAmount' = ttsMinimumAmount
                 ELSE SentTo(out', c) = <<>>]_vars

C20_Witness ==
    /\ step.op = "connection"
    /\ ttsMinimumAmount = 2
    /\ SentTo(out, step.socket) # <<>>
    /\ SentTo(out, step.socket)[1].data = 2
    /\ connected = Panels

----------------------------------------------------------------------------
(* GET /audio *)

SynthesisCallsIn(o) == SelectSeq(o, LAMBDA e : e.kind = "synthesis_call")
Is500(e) == e.kind = "response" /\ e.status = 500

\* the text parameter is missing or empty
NoText(text) == text = <<>> \/ text = <<<<>>>>

\* C21: an audio request whose text parameter is missing or empty is answered 400 and
\* nothing else, attempts no speech-synthesis call and opens no stream.
C21_MissingTextRejected ==
    [][(step'.op = "audio" /\ NoText(step'.text))
          => /\ Len(Responses(out')) = 1
             /\ Is400(Responses(out')[1])
             /\ SynthesisCallsIn(out') = <<>>
             /\ streams' = streams]_vars

\* an empty text parameter has been rejected while another request is being served
C21_Witness ==
    /\ step.op = "audio"
    /\ step.text = <<<<>>>>
    /\ Len(Responses(out)) = 1
    /\ Is400(Responses(out)[1])
    /\ streams # <<>>

AbortsIn(o) == SelectSeq(o, LAMBDA e : e.kind = "abort")
SynthesisFailure(op) == op \in {"synthesis_fails", "stream_error"}

\* C22: when the synthesis of an audio request fails, the response is a 500 if no bytes
\* were sent and the connection is aborted if streaming had begun; either way the
\* response is terminated and no longer open afterwards.
C22_FailureTerminatesResponse ==
    [][SynthesisFailure(step'.op)
          => /\ ~ step'.request.headersSent
                   => Len(Responses(out')) = 1 /\ Is500(Responses(out')[1])
             /\ step'.request.headersSent => AbortsIn(out') # <<>>
             /\ Len(streams') = Len(streams) - 1]_vars

AudioStep(op) ==
    op \in {"audio", "synthesis_fails", "synthesis_returns", "first_chunk", "stream_ends",
            "stream_error"}

\* the step answered the request or ended its response
Answered(o) == Responses(o) # <<>> \/ SelectSeq(o, LAMBDA e : e.kind = "end") # <<>>

----------------------------------------------------------------------------
(* The unlock gesture *)

\* C24: if the queue of a page is non-empty when the user performs the unlock gesture,
\* the head entry is eventually dequeued, whichever path the unlock handler takes and
\* without a further donation event.
C24_UnlockDequeuesHead ==
    \A c \in Players :
        (step.op = "enable_audio" /\ step.page = c /\ Held(c) > 0) ~> (InFlight(c) > 0)

----------------------------------------------------------------------------
(* Messages that are present but empty once cleaned *)

\* the message is a non-empty string of whitespace only or of pictographs only
PresentButEmptied(p) ==
    /\ p.message # <<>>
    /\ p.message[1] # <<>>
    /\ OnlyBlanks(p.message[1]) \/ OnlyPictographs(p.message[1])

\* C25: a validated, non-suppressed request whose message is a non-empty string of
\* whitespace only or of pictographs only broadcasts no 'donation_nomessage' event; that
\* event is broadcast only by a webhook request whose message is absent or the empty
\* string.
C25_NoMessageOnlyForAbsentMessage ==
    /\ (/\ step.op = "webhook"
        /\ ~ LacksRequired(step.payload)
        /\ ~ ThresholdSuppressed(step.payload, ttsMinimumAmount)
        /\ PresentButEmptied(step.payload))
           => EmitsOf(out, "donation_nomessage") = <<>>
    /\ EmitsOf(out, "donation_nomessage") # <<>>
           => step.op = "webhook" /\ AbsentOrEmpty(step.payload)

\* a pictograph-only message of a validated, non-suppressed request in a gated category
\* has been handled with a socket connected
C25_Witness ==
    /\ step.op = "webhook"
    /\ ~ LacksRequired(step.payload)
    /\ InGatedCategory(step.payload)
    /\ ~ ThresholdSuppressed(step.payload, ttsMinimumAmount)
    /\ step.payload.message = EmojiOnly
    /\ connected # {}
    /\ EmitsOf(out, "donation_nomessage") = <<>>

----------------------------------------------------------------------------
(* The translation cache under overlapping requests *)

\* C26: once the translation cache has an entry for a cleaned text, the entry is never
\* removed and its value never changes, also while several requests with that cleaned
\* text are being normalized at overlapping times.
C26_CacheEntriesNeverChange ==
    [][\A k \in DOMAIN translationCache :
          /\ k \in DOMAIN translationCache'
          /\ translationCache'[k] = translationCache[k]]_vars

----------------------------------------------------------------------------
(* The pre-roll delay *)

\* C27: on every page each dequeue starts one pre-roll timer and no playback; an audio
\* element is created only by the step in which a pending pre-roll timer fires; and
\* while a pre-roll is pending isPlaying is true and no second pre-roll is pending.
C27_PreRollBetweenDequeueAndPlayback ==
    [][\A c \in Players :
          /\ Len(donationQueue'[c]) < Len(donationQueue[c])
                => /\ Len(timers'[c]) = Len(timers[c]) + 1
                   /\ Len(audios'[c]) <= Len(audios[c])
          /\ Len(audios'[c]) > Len(audios[c])
                => /\ step'.op = "timer"
                   /\ timers[c] # <<>>
                   /\ Len(timers'[c]) = Len(timers[c]) - 1
          /\ timers'[c] # <<>> => isPlaying'[c] /\ Len(timers'[c]) = 1]_vars

----------------------------------------------------------------------------
(* The synthesis limit and the audio reference *)

DonationsIn(o) == EmitsOf(o, "donation")

\* C28: the text the normalizer returns, which is the normalized text of every broadcast
\* 'donation' event and the text of its audio reference, is never longer than 190
\* characters, whether it comes from the cache, a conversion, an empty conversion or a
\* remote failure; nor is any text the cache holds.
C28_NormalizedTextWithinLimit ==
    /\ \A i \in 1..Len(DonationsIn(out)) :
           Len(DonationsIn(out)[i].data.arabicText) <= MAX_TTS_LEN
    /\ \A k \in DOMAIN translationCache : Len(translationCache[k]) <= MAX_TTS_LEN

\* the request a step broadcasts for
RequestOf(s) == IF s.op = "webhook" THEN s.payload ELSE s.request.payload

\* C29: in every broadcast 'donation' event the audio reference is the synthesis
\* endpoint followed by the URI encoding of that event's own normalized text, and the
\* event carries the message of the request whose handler broadcasts it, also while
\* other requests are being normalized.
C29_AudioReferenceOfOwnText ==
    \A i \in 1..Len(DonationsIn(out)) :
        LET data == DonationsIn(out)[i].data
        IN  /\ data.ttsUrl = <<<<"/audio?text=">> \o EncodeURIComponent(data.arabicText)>>
            /\ data.original = RequestOf(step).message[1]
            /\ data.paymentID = RequestOf(step).paymentID[1]

\* a conversion has been broadcast while the request for another message is suspended in
\* its remote call
C29_Witness ==
    /\ step.op = "remote_return"
    /\ Len(DonationsIn(out)) = 1
    /\ DonationsIn(out)[1].data.arabicText = <<"x">>
    /\ DonationsIn(out)[1].data.original # <<"x">>
    /\ \E i \in 1..Len(inflight) : inflight[i].payload.message # step.request.payload.message

----------------------------------------------------------------------------
(* The life of a queue entry *)

DataOf(elements) == [i \in 1..Len(elements) |-> elements[i].data]
Count(s, e) == Cardinality({i \in 1..Len(s) : s[i] = e})
Elements(s) == {s[i] : i \in 1..Len(s)}
CompletionStep(op) == op \in {"ended", "playback_error", "play_rejected", "load_failed"}

IsSuffix(s, t) == Len(s) <= Len(t) /\ SubSeq(t, Len(t) - Len(s) + 1, Len(t)) = s

\* C30: on every page an entry is in the queue, then in its pre-roll, then in an audio
\* element, and never goes back. Only the receipt of a donation event adds an entry to the
\* page, at the tail of the queue; entries leave the queue only from its head, leave the
\* pre-roll only when the timer hands them to a new audio element, and a completion
\* removes the completed entry, which is then held nowhere: so no entry is dequeued or
\* played twice and no more playbacks start than entries were enqueued.
C30_EntryDequeuedOnce ==
    [][\A c \in Players :
          LET before   == DataOf(audios[c]) \o timers[c] \o donationQueue[c]
              after    == DataOf(audios'[c]) \o timers'[c] \o donationQueue'[c]
              received == step'.op = "receive" /\ step'.page = c
              enqueued == received /\ Len(after) > Len(before)
              finished == CompletionStep(step'.op) /\ step'.page = c
          IN  /\ \A e \in Elements(before) \cup Elements(after) :
                    Count(after, e) = Count(before, e)
                        + (IF enqueued /\ e = step'.event.data THEN 1 ELSE 0)
                        - (IF finished /\ e = step'.data THEN 1 ELSE 0)
              /\ finished => Count(DataOf(audios'[c]), step'.data)
                                 = Count(DataOf(audios[c]), step'.data) - 1
              /\ IsSuffix(donationQueue'[c],
                          IF enqueued THEN Append(donationQueue[c], step'.event.data)
                                      ELSE donationQueue[c])
              /\ Len(timers'[c]) < Len(timers[c]) => step'.op = "timer" /\ step'.page = c
              /\ Len(audios'[c]) > Len(audios[c])
                    => /\ step'.op = "timer" /\ step'.page = c
                       /\ audios'[c] = Append(audios[c], [data |-> Head(timers[c]),
                                                         phase |-> "loading"])
                       /\ timers'[c] = Tail(timers[c])
              /\ Len(audios'[c]) < Len(audios[c]) => finished]_vars

\* the playback of the only entry of an unlocked page has ended and the page holds nothing
C30_Witness ==
    \E c \in Players :
        /\ step.op = "ended"
        /\ step.page = c
        /\ unlocked[c]
        /\ Held(c) = 0

----------------------------------------------------------------------------
(* Several pages *)

PageStep(op) ==
    op \in {"receive", "enable_audio", "resume_settles", "timer", "play_started", "ended",
            "playback_error", "play_rejected", "load_failed"}

\* C31: every 'donation' event the server broadcasts goes to every connected socket and
\* arrives on the socket of every connected page, and a step of one page (receipt,
\* unlock, dequeue, pre-roll expiry, completion or error of a playback) leaves the queue,
\* the unlocked flag, the isPlaying flag, the timers, the audio elements and the socket
\* of every other page unchanged.
C31_ClientsIndependent ==
    [][/\ \A i \in 1..Len(DonationsIn(out')) :
             /\ DonationsIn(out')[i].to = connected'
             /\ \A c \in Pages \cap connected' :
                    /\ inbox'[c] # <<>>
                    /\ inbox'[c][Len(inbox'[c])] = DonationsIn(out')[i]
                    /\ Len(inbox'[c]) = Len(inbox[c]) + 1
       /\ PageStep(step'.op)
             => \A d \in Pages \ {step'.page} :
                    /\ donationQueue'[d] = donationQueue[d]
                    /\ unlocked'[d] = unlocked[d]
                    /\ isPlaying'[d] = isPlaying[d]
                    /\ timers'[d] = timers[d]
                    /\ audios'[d] = audios[d]
                    /\ inbox'[d] = inbox[d]]_vars

\* two connected pages hold the same donation: one is unlocked and its playback has
\* ended, the other is locked and still has the entry queued
C31_Witness ==
    \E c \in Pages : \E d \in Pages \ {c} :
        /\ {c, d} \subseteq connected
        /\ step.op = "ended"
        /\ step.page = c
        /\ unlocked[c]
        /\ ~ unlocked[d]
        /\ donationQueue[d] # <<>>
        /\ donationQueue[d][1] = step.data

----------------------------------------------------------------------------
(* The completion handler *)

AudioFinishedIn(o) ==
    SelectSeq(o, LAMBDA e : e.kind = "client_emit" /\ e.event = "audioFinished")

\* C32: the completion handler runs exactly once for each dequeued entry: the step in
\* which the playback of an entry completes or fails sends exactly one audioFinished, also
\* when the element fires 'error' and play() rejects for the same entry, and no other
\* step of a page sends one.
C32_CompletionRunsOnce ==
    [][/\ CompletionStep(step'.op) => Len(AudioFinishedIn(out')) = 1
       /\ ~ CompletionStep(step'.op) => AudioFinishedIn(out') = <<>>]_vars

\* C33: on every page, in every reachable state, isPlaying is true exactly when one entry
\* has been dequeued and has not completed: it is never false while a pre-roll timer is
\* pending or an audio element exists, and never true when there is none.
C33_IsPlayingMatchesScheduler ==
    \A c \in Players :
        /\ isPlaying[c] <=> InFlight(c) = 1
        /\ ~ isPlaying[c] => timers[c] = <<>> /\ audios[c] = <<>>

----------------------------------------------------------------------------
(* Overlapping requests *)

RemoteCompletion(op) == op \in {"remote_return", "remote_fail"}

\* C34: 'donation' events are broadcast in the order in which their requests were
\* received: a request whose handler broadcasts without suspending does so only when no
\* earlier request is still waiting for its remote call, and of the waiting requests the
\* one that broadcasts is the earliest.
C34_BroadcastInArrivalOrder ==
    [][DonationsIn(out') # <<>>
          => /\ step'.op = "webhook" => inflight = <<>>
             /\ RemoteCompletion(step'.op)
                   => /\ step'.request = Head(inflight)
                      /\ inflight' = Tail(inflight)]_vars

\* C35: at most one successful remote call is made per cleaned text: a remote call never
\* returns successfully for a cleaned text whose result the cache already holds, that is,
\* for which an earlier call has already returned successfully.
C35_OneSuccessfulCallPerText ==
    [][step'.op = "remote_return"
          => step'.request.cleanedText \notin DOMAIN translationCache]_vars

----------------------------------------------------------------------------
(* The threshold and requests in flight *)

\* C36: the threshold decision of a request is taken in the step that validates it, on
\* the threshold of that moment: a suppressed request emits nothing and leaves nothing
\* pending; a set_threshold step leaves the pending requests alone and broadcasts no
\* donation; and a pending request broadcasts its 'donation' when its remote call
\* completes, whatever the threshold is by then.
C36_GateDecidedAtValidation ==
    [][/\ (step'.op = "webhook" /\ ThresholdSuppressed(step'.payload, ttsMinimumAmount))
             => Emits(out') = <<>> /\ inflight' = inflight
       /\ step'.op = "set_threshold"
             => /\ inflight' = inflight
                /\ DonationsIn(out') = <<>>
                /\ EmitsOf(out', "donation_nomessage") = <<>>
       /\ RemoteCompletion(step'.op)
             => /\ Len(DonationsIn(out')) = 1
                /\ DonationsIn(out')[1].to = connected
                /\ DonationsIn(out')[1].data.original = step'.request.payload.message[1]
                /\ Len(inflight') = Len(inflight) - 1]_vars

\* a request passed the gate, the threshold was then raised above its amount, and its
\* donation has been broadcast all the same
C36_Witness ==
    /\ step.op = "remote_return"
    /\ ThresholdSuppressed(step.request.payload, ttsMinimumAmount)
    /\ Len(DonationsIn(out)) = 1
    /\ connected # {}

----------------------------------------------------------------------------
(* One event per request *)

Announcements(o) ==
    SelectSeq(o, LAMBDA e : e.kind = "emit" /\ e.event \in {"donation", "donation_nomessage"})

\* C37: a validated webhook request causes at most one broadcast event in total: the step
\* that receives it emits at most one 'donation' or 'donation_nomessage' event, emits
\* none when it leaves the request waiting for the remote call, and the completion of the
\* remote call emits one 'donation' and ends the request; no other step emits either
\* event.
C37_AtMostOneEventPerRequest ==
    [][/\ Len(Announcements(out')) <= 1
       /\ step'.op = "webhook"
             => \/ Announcements(out') = <<>> /\ Len(inflight') <= Len(inflight) + 1
                \/ Len(Announcements(out')) = 1 /\ inflight' = inflight
       /\ RemoteCompletion(step'.op)
             => /\ Len(Announcements(out')) = 1
                /\ Announcements(out')[1].event = "donation"
                /\ inflight' = RemoveAt(inflight,
                                  CHOOSE i \in 1..Len(inflight) : inflight[i] = step'.request)
       /\ Announcements(out') # <<>> => step'.op = "webhook" \/ RemoteCompletion(step'.op)]_vars

\* the remote call of a request has returned: its one donation is broadcast to a connected
\* socket and no request is left waiting
C37_Witness ==
    /\ step.op = "remote_return"
    /\ Len(Announcements(out)) = 1
    /\ Announcements(out)[1].data.paymentID = step.request.payload.paymentID[1]
    /\ inflight = <<>>
    /\ connected # {}

----------------------------------------------------------------------------
(* The threshold *)

ThresholdUpdatesIn(o) == EmitsOf(o, "threshold_update")

\* C38: the threshold starts at 0 and is a non-negative integer in every state; it changes
\* only in a set_threshold step whose value is the numeral of a non-negative integer, and
\* then to that integer; and every threshold_update carries the threshold in force when it
\* is sent.
C38_ThresholdOnlyFromValidValues ==
    /\ ttsMinimumAmount = 0
    /\ [][/\ ttsMinimumAmount' \in Nat
          /\ ttsMinimumAmount' # ttsMinimumAmount
                => /\ step'.op = "set_threshold"
                   /\ IsNumeral(step'.value)
                   /\ ttsMinimumAmount' = NumeralValue(step'.value)
          /\ \A i \in 1..Len(ThresholdUpdatesIn(out')) :
                ThresholdUpdatesIn(out')[i].data = ttsMinimumAmount']_vars

============================================================================
